---- MODULE Spec2Model ----
(***************************************************************************)
(* ForgeBuild_2 (src/FB2.py): the incremental build engine.                *)
(*                                                                         *)
(* Strings are sequences of Unicode code points, byte strings sequences of *)
(* bytes.  Two specifications share the module:                            *)
(*   SpecHash : hash_source applied to bounded input tuples;               *)
(*   Spec     : a sequence of command-line invocations (build,             *)
(*              force-build, clean) of the program on one project          *)
(*              directory, with edits of the files between invocations.    *)
(***************************************************************************)
EXTENDS Integers, Sequences, FiniteSets, TLC

(* ---------------------------------------------------------------- bounds *)
\* longest flag / include-dir list handed to hash_source under SpecHash
MaxListLen == 2
\* number of command-line invocations in one behaviour of Spec
MaxRuns == 2
\* longest source list of SpecPaths
MaxSrcLen == 2

(* --------------------------------------------------------------- strings *)
\* "a", "aa", "-O2": the strings flag and include-dir lists are drawn from
S_a == <<97>>
S_aa == <<97, 97>>
S_dashO2 == <<45, 79, 50>>
\* the built-in profile presets (BuildConfig.from_file)
S_O0 == <<45, 79, 48>>
S_g == <<45, 103>>
S_O3 == <<45, 79, 51>>
S_DNDEBUG == <<45, 68, 78, 68, 69, 66, 85, 71>>
DebugFlags == <<S_O0, S_g>>
ReleaseFlags == <<S_O3, S_DNDEBUG>>

\* str.encode("utf-8") of one code point (one- and two-byte forms)
Utf8(c) ==
    IF c < 128 THEN <<c>> ELSE <<192 + (c \div 64), 128 + (c % 64)>>

RECURSIVE Encode(_)
\* str.encode("utf-8")
Encode(s) ==
    IF s = <<>> THEN <<>> ELSE Utf8(Head(s)) \o Encode(Tail(s))

RECURSIVE UpdateAll(_, _)
\* "for x in xs: h.update(x.encode('utf-8'))": the bytes appended to stream h
UpdateAll(h, xs) ==
    IF xs = <<>> THEN h ELSE UpdateAll(h \o Encode(Head(xs)), Tail(xs))

\* hashlib.sha256 taken as collision-free: the digest is identified with the
\* byte stream that was fed to it.
HexDigest(stream) == stream

\* hash_source; resolved is str(source_path.resolve()), contents the bytes of
\* read_file_bytes(source_path)
hash_source(resolved, contents, base_flags, profile_flags, include_dirs) ==
    LET h1 == Encode(resolved)
        h2 == h1 \o contents
        h3 == UpdateAll(h2, base_flags)
        h4 == UpdateAll(h3, profile_flags)
        h5 == UpdateAll(h4, include_dirs)
    IN  HexDigest(h5)

(* ------------------------------------------------- hash_source, SpecHash *)
HashStrs == {S_a, S_aa, S_dashO2}
RECURSIVE ListsUpTo(_, _)
ListsUpTo(S, n) ==
    IF n = 0 THEN {<<>>}
    ELSE LET L == ListsUpTo(S, n - 1)
         IN  L \cup {Append(l, x) : l \in {m \in L : Len(m) = n - 1}, x \in S}
HashLists == ListsUpTo(HashStrs, MaxListLen)
HashPaths == {<<47, 119, 47, 97>>, <<47, 119, 47, 98>>}
HashContents == {<<>>, <<97>>}
HashProfiles == {DebugFlags, ReleaseFlags}
HashInputs ==
    [path : HashPaths, contents : HashContents, base : HashLists,
     profile : HashProfiles, inc : HashLists]
HashOf(t) == hash_source(t.path, t.contents, t.base, t.profile, t.inc)

VARIABLES hIn1, hIn2, hOut1, hOut2, hpc
hvars == <<hIn1, hIn2, hOut1, hOut2, hpc>>

\* the second tuple differs from the first in at most one component
OneComponentApart(t, u) ==
    \/ u = t
    \/ \E p \in HashPaths : u = [t EXCEPT !.path = p]
    \/ \E c \in HashContents : u = [t EXCEPT !.contents = c]
    \/ \E l \in HashLists : u = [t EXCEPT !.base = l]
    \/ \E l \in HashProfiles : u = [t EXCEPT !.profile = l]
    \/ \E l \in HashLists : u = [t EXCEPT !.inc = l]

HashInit ==
    /\ hIn1 \in HashInputs
    /\ hIn2 \in {u \in HashInputs : OneComponentApart(hIn1, u)}
    /\ hOut1 = <<>>
    /\ hOut2 = <<>>
    /\ hpc = "input"

HashBoth ==
    /\ hpc = "input"
    /\ hOut1' = HashOf(hIn1)
    /\ hOut2' = HashOf(hIn2)
    /\ hpc' = "hashed"
    /\ UNCHANGED <<hIn1, hIn2>>


(* ------------------------------------------------------------ the project *)
S_src == <<115, 114, 99>>
S_a_cpp == <<97, 46, 99, 112, 112>>
S_b_cpp == <<98, 46, 99, 112, 112>>
S_build == <<98, 117, 105, 108, 100>>
S_inc == <<105, 110, 99>>
S_dot_o == <<46, 111>>
\* str() of the working directory that Path.resolve() prepends: "/w"
CwdStr == <<47, 119>>

\* A Path is the sequence of its components.  The configuration (forge.toml,
\* BuildConfig.from_file) is fixed over a behaviour: two sources with distinct
\* file names, the debug profile, one base flag, one include directory.
cpp_sources == <<(<<S_src, S_a_cpp>>), (<<S_src, S_b_cpp>>)>>
compiler_base_flags == <<S_dashO2>>
profile_flags == DebugFlags
include_dirs == <<S_inc>>
output_dir == <<S_build>>

NumUnits == Len(cpp_sources)
Units == 1..NumUnits

\* the two versions a source file's bytes can have: "1" and "2"
Contents == {<<49>>, <<50>>}
\* a file that does not exist
Missing == <<0>>

RECURSIVE PathStr(_)
\* str(path): the components joined with "/"
PathStr(p) ==
    IF Len(p) = 1 THEN p[1] ELSE p[1] \o <<47>> \o PathStr(Tail(p))

\* str(path.resolve()) of a relative path
ResolvedStr(p) == CwdStr \o <<47>> \o PathStr(p)

\* the suffix taken from the first dot of the name instead of the last
WithSuffixName_FirstDot(p, suffix) ==
    LET name == p[Len(p)]
        dots == {k \in 1..Len(name) : name[k] = 46}
        first == IF dots = {} THEN 0
                 ELSE CHOOSE k \in dots : \A j \in dots : k <= j
        stem == IF 1 < first /\ first < Len(name)
                THEN SubSeq(name, 1, first - 1) ELSE name
    IN  stem \o suffix

\* path.with_suffix(suffix).name: the last component, its suffix (from the
\* last dot, when that dot is neither first nor last) replaced
WithSuffixName(p, suffix) ==
    LET name == p[Len(p)]
        dots == {k \in 1..Len(name) : name[k] = 46}
        last == IF dots = {} THEN 0
                ELSE CHOOSE k \in dots : \A j \in dots : j <= k
        stem == IF 1 < last /\ last < Len(name)
                THEN SubSeq(name, 1, last - 1) ELSE name
    IN  stem \o suffix

\* obj_path = self.output_dir / src_path.with_suffix(".o").name
ObjPath(src) == output_dir \o <<WithSuffixName(src, S_dot_o)>>

\* the cache key of unit u: str(obj_path)
ObjKey(u) == PathStr(ObjPath(cpp_sources[u]))
ObjKeys == {ObjKey(u) : u \in Units}

(* ------------------------------------- object paths of a source list, SpecPaths *)
S_lib == <<108, 105, 98>>
S_a_cc == <<97, 46, 99, 99>>
S_a_x_cpp == <<97, 46, 120, 46, 99, 112, 112>>
\* the directories and file names a configured source path is made of
PathDirs == {<<S_src>>, <<S_lib>>}
PathNames == {S_a_cpp, S_b_cpp, S_a_cc, S_a_x_cpp, S_a}
SrcPaths == {d \o <<n>> : d \in PathDirs, n \in PathNames}
\* the non-empty lists of pairwise distinct source paths
SourceLists ==
    {l \in ListsUpTo(SrcPaths, MaxSrcLen) :
        /\ l # <<>>
        /\ \A i, j \in 1..Len(l) : i # j => l[i] # l[j]}

VARIABLES pSources, pIdx, pObjFiles, pTasks
pvars == <<pSources, pIdx, pObjFiles, pTasks>>

PathsInit ==
    /\ pSources \in SourceLists
    /\ pIdx = 0
    /\ pObjFiles = <<>>
    /\ pTasks = <<>>

\* one iteration of the loop over cpp_sources: the object path is derived and
\* appended to obj_files; a unit that force_rebuild or needs_rebuild makes
\* stale gets a compile task (src, obj)
DeriveObject(stale) ==
    /\ pIdx < Len(pSources)
    /\ LET src_path == pSources[pIdx + 1]
           obj_path == ObjPath(src_path)
       IN  /\ pObjFiles' = Append(pObjFiles, obj_path)
           /\ pTasks' = IF stale
                        THEN Append(pTasks, [src |-> PathStr(src_path),
                                             obj |-> PathStr(obj_path)])
                        ELSE pTasks
    /\ pIdx' = pIdx + 1
    /\ UNCHANGED pSources

(* --------------------------------------------------------------- the cache *)
\* no entry under a key (dict.get returns None)
NoEntry == [hash |-> <<>>, timestamp |-> -1]
EmptyMap == [k \in ObjKeys |-> NoEntry]
\* the value of self.data: a dict, or another JSON value (list, string, ...)
EmptyDict == [kind |-> "dict", map |-> EmptyMap]
\* the cache file: absent, not JSON, JSON that is no object, or a JSON object
MissingFile == [kind |-> "missing", map |-> EmptyMap]
GarbageFile == [kind |-> "garbage", map |-> EmptyMap]
NonObjectFile == [kind |-> "nonobject", map |-> EmptyMap]

\* BuildCache._load
Load(file) ==
    IF file.kind = "missing" THEN EmptyDict
    ELSE IF file.kind = "garbage" THEN EmptyDict
    ELSE [kind |-> file.kind, map |-> file.map]

\* what BuildCache.save leaves in the file: json.dump(self.data)
Dump(d) == [kind |-> d.kind, map |-> d.map]

\* BuildCache.get_entry on a dict
get_entry(d, key) == d.map[key]

\* needs_rebuild that only looks whether an entry exists
needs_rebuild_ExistsOnly(d, key, source_hash) ==
    get_entry(d, key) = NoEntry

\* BuildCache.needs_rebuild on a dict
needs_rebuild(d, key, source_hash) ==
    LET entry == get_entry(d, key)
    IN  IF entry = NoEntry THEN TRUE ELSE entry.hash # source_hash

\* update_entry that also refreshes the timestamp of every other entry
update_entry_TouchAll(d, key, source_hash, now) ==
    [d EXCEPT !.map =
        [k \in ObjKeys |->
            IF k = key THEN [hash |-> source_hash, timestamp |-> now]
            ELSE IF d.map[k] = NoEntry THEN NoEntry
            ELSE [d.map[k] EXCEPT !.timestamp = now]]]

\* BuildCache.update_entry on a dict; now is time.time()
update_entry(d, key, source_hash, now) ==
    [d EXCEPT !.map[key] = [hash |-> source_hash, timestamp |-> now]]

(* ----------------------------------------------------------------- state *)
VARIABLES
    srcFiles,      \* unit -> bytes of its source file, or Missing
    cacheFile,     \* contents of .forgebuild2_cache.json
    objFiles,      \* cache key -> fingerprint of the inputs the object file
                   \* at that path was compiled from, <<>> when no such file
    run,           \* number of invocations started; stands for time.time()
    pc,            \* "idle" (shell), "classify", "compile", "unwind",
                   \* "link", "save", "done" (process exiting)
    force,         \* force_rebuild
    data,          \* self.cache.data
    idx,           \* position of the loop over cpp_sources
    obj_files,     \* obj_files
    compile_tasks, \* compile_tasks: records [unit, obj, hsh]
    max_workers,   \* size of the ProcessPoolExecutor, 0 before it exists
    fut,           \* task index -> "queued", "running", "ok", "fail", "crash"
    processed,     \* task indexes in the order as_completed yielded them
    errors,        \* errors
    linkCalls,     \* the linker invocations made: [objs, returncode]
    saves,         \* number of writes of the cache file
    exitCode,      \* -1 while running, else the process exit status
    outcome,       \* why the process exited
    loaded,        \* history: self.cache.data as loaded
    fileAtStart,   \* history: cacheFile when the invocation started
    started,       \* history: task indexes a worker process has begun
    jobsArg,       \* the variable "jobs": the --jobs value (see JobsArgs),
                   \* overwritten with the pool size by _run_parallel_compilers
    prev,          \* history: the previous invocation
    prevSrc,       \* history: srcFiles when the previous invocation ran
    touched        \* history: cache file tampered with since then

diskVars == <<srcFiles, cacheFile, objFiles>>
procVars == <<pc, force, data, idx, obj_files, compile_tasks, max_workers,
              fut, processed, errors, linkCalls, saves, exitCode, outcome,
              loaded, fileAtStart>>
histVars == <<prev, prevSrc, touched>>
schedVars == <<started, jobsArg>>
bvars == <<srcFiles, cacheFile, objFiles, run, pc, force, data, idx,
           obj_files, compile_tasks, max_workers, fut, processed, errors,
           linkCalls, saves, exitCode, outcome, loaded, fileAtStart, prev,
           prevSrc, touched, started, jobsArg>>
vars == <<pSources, pIdx, pObjFiles, pTasks,
          hIn1, hIn2, hOut1, hOut2, hpc, srcFiles, cacheFile, objFiles, run,
          pc, force, data, idx, obj_files, compile_tasks, max_workers, fut,
          processed, errors, linkCalls, saves, exitCode, outcome, loaded,
          fileAtStart, prev, prevSrc, touched, started, jobsArg>>

\* hash_source of unit u as build() calls it, on the file's present bytes
Fingerprint(u) ==
    hash_source(ResolvedStr(cpp_sources[u]), srcFiles[u],
                compiler_base_flags, profile_flags, include_dirs)

NoPrev == [outcome |-> "none", force |-> FALSE, dispatched |-> {}]

\* the process has no state between invocations
ProcIdle ==
    /\ pc = "idle"
    /\ force = FALSE
    /\ data = EmptyDict
    /\ idx = 0
    /\ obj_files = <<>>
    /\ compile_tasks = <<>>
    /\ max_workers = 0
    /\ fut = <<>>
    /\ processed = <<>>
    /\ errors = FALSE
    /\ linkCalls = <<>>
    /\ saves = 0
    /\ exitCode = -1
    /\ outcome = "none"
    /\ loaded = EmptyDict
    /\ fileAtStart = MissingFile
    /\ started = {}
    /\ jobsArg = <<>>

\* a fresh checkout: both sources present, nothing built, no cache file
BuildInit ==
    /\ srcFiles = [u \in Units |-> <<49>>]
    /\ cacheFile = MissingFile
    /\ objFiles = [k \in ObjKeys |-> <<>>]
    /\ run = 0
    /\ ProcIdle
    /\ prev = NoPrev
    /\ prevSrc = [u \in Units |-> <<49>>]
    /\ touched = FALSE


\* os.cpu_count() of the machine
CpuCount == 2
\* the values of --jobs: <<>> is None (option absent), <<n>> the integer n
JobsArgs == {<<>>, <<0>>, <<1>>, <<2>>}

\* "if jobs is None or jobs <= 0: jobs = os.cpu_count() or 1"
PoolSize(jobs) ==
    IF jobs = <<>> \/ jobs[1] <= 0
    THEN (IF CpuCount = 0 THEN 1 ELSE CpuCount)
    ELSE jobs[1]

(* ------------------------------------------------------- the environment *)
\* an editor rewrites, creates or deletes the source file of unit u
EditSource(u, c) ==
    /\ pc = "idle"
    /\ srcFiles[u] # c
    /\ srcFiles' = [srcFiles EXCEPT ![u] = c]
    /\ UNCHANGED <<cacheFile, objFiles, run>>
    /\ UNCHANGED procVars
    /\ UNCHANGED histVars
    /\ UNCHANGED hvars
    /\ UNCHANGED pvars
    /\ UNCHANGED schedVars

\* the cache file is deleted or overwritten behind the program's back
TamperCache(f) ==
    /\ pc = "idle"
    /\ cacheFile # f
    /\ cacheFile' = f
    /\ touched' = TRUE
    /\ UNCHANGED <<srcFiles, objFiles, run, prev, prevSrc>>
    /\ UNCHANGED procVars
    /\ UNCHANGED hvars
    /\ UNCHANGED pvars
    /\ UNCHANGED schedVars

(* ----------------------------------------------------------- invocations *)
\* main() with command "clean": ForgeBuilder.clean removes the output
\* directory and the cache file
Clean ==
    /\ pc = "idle"
    /\ run < MaxRuns
    /\ run' = run + 1
    /\ objFiles' = [k \in ObjKeys |-> <<>>]
    /\ cacheFile' = MissingFile
    /\ prev' = [outcome |-> "clean", force |-> FALSE, dispatched |-> {}]
    /\ prevSrc' = srcFiles
    /\ touched' = FALSE
    /\ UNCHANGED srcFiles
    /\ UNCHANGED procVars
    /\ UNCHANGED hvars
    /\ UNCHANGED pvars
    /\ UNCHANGED schedVars

\* main() with command "build" (f = FALSE) or "force-build" (f = TRUE):
\* ForgeBuilder.__init__ loads the cache, build() starts its loop
StartBuild(f) ==
    /\ pc = "idle"
    /\ run < MaxRuns
    /\ run' = run + 1
    /\ force' = f
    /\ data' = Load(cacheFile)
    /\ loaded' = Load(cacheFile)
    /\ fileAtStart' = cacheFile
    /\ idx' = 1
    /\ pc' = "classify"
    /\ UNCHANGED <<obj_files, compile_tasks, max_workers, fut, processed,
                   errors, linkCalls, saves, exitCode, outcome>>
    /\ UNCHANGED diskVars
    /\ UNCHANGED histVars
    /\ UNCHANGED hvars
    /\ UNCHANGED pvars
    /\ jobsArg' \in JobsArgs
    /\ UNCHANGED started

\* sys.exit(code), or an exception that reaches the top level (code 1)
Die(code, why) ==
    /\ pc' = "done"
    /\ exitCode' = code
    /\ outcome' = why

\* Classify that skips a missing source file instead of exiting
Classify_SkipMissing ==
    /\ pc = "classify"
    /\ idx <= NumUnits
    /\ LET obj == ObjKey(idx)
           source_hash == Fingerprint(idx)
           task == [unit |-> idx, obj |-> obj, hsh |-> source_hash]
       IN  IF srcFiles[idx] = Missing
           THEN /\ idx' = idx + 1
                /\ UNCHANGED <<obj_files, compile_tasks, pc, exitCode,
                               outcome>>
           ELSE /\ obj_files' = Append(obj_files, obj)
                /\ IF force
                   THEN /\ compile_tasks' = Append(compile_tasks, task)
                        /\ idx' = idx + 1
                        /\ UNCHANGED <<pc, exitCode, outcome>>
                   ELSE IF data.kind # "dict"
                   THEN /\ Die(1, "AttributeError")
                        /\ UNCHANGED <<compile_tasks, idx>>
                   ELSE /\ compile_tasks' =
                              IF needs_rebuild(data, obj, source_hash)
                              THEN Append(compile_tasks, task)
                              ELSE compile_tasks
                        /\ idx' = idx + 1
                        /\ UNCHANGED <<pc, exitCode, outcome>>
    /\ UNCHANGED <<force, data, max_workers, fut, processed, errors,
                   linkCalls, saves, loaded, fileAtStart, run>>
    /\ UNCHANGED diskVars
    /\ UNCHANGED histVars
    /\ UNCHANGED hvars
    /\ UNCHANGED pvars
    /\ UNCHANGED schedVars

\* Classify that ignores force_rebuild
Classify_NoForce ==
    /\ pc = "classify"
    /\ idx <= NumUnits
    /\ LET obj == ObjKey(idx)
           source_hash == Fingerprint(idx)
           task == [unit |-> idx, obj |-> obj, hsh |-> source_hash]
       IN  IF srcFiles[idx] = Missing
           THEN /\ Die(1, "missing_source")
                /\ UNCHANGED <<obj_files, compile_tasks, idx>>
           ELSE /\ obj_files' = Append(obj_files, obj)
                /\ IF data.kind # "dict"
                   THEN /\ Die(1, "AttributeError")
                        /\ UNCHANGED <<compile_tasks, idx>>
                   ELSE /\ compile_tasks' =
                              IF needs_rebuild(data, obj, source_hash)
                              THEN Append(compile_tasks, task)
                              ELSE compile_tasks
                        /\ idx' = idx + 1
                        /\ UNCHANGED <<pc, exitCode, outcome>>
    /\ UNCHANGED <<force, data, max_workers, fut, processed, errors,
                   linkCalls, saves, loaded, fileAtStart, run>>
    /\ UNCHANGED diskVars
    /\ UNCHANGED histVars
    /\ UNCHANGED hvars
    /\ UNCHANGED pvars
    /\ UNCHANGED schedVars

\* one iteration of "for src_str in self.config.cpp_sources"
Classify ==
    /\ pc = "classify"
    /\ idx <= NumUnits
    /\ LET obj == ObjKey(idx)
           source_hash == Fingerprint(idx)
           task == [unit |-> idx, obj |-> obj, hsh |-> source_hash]
       IN  IF srcFiles[idx] = Missing
           THEN /\ Die(1, "missing_source")
                /\ UNCHANGED <<obj_files, compile_tasks, idx>>
           ELSE /\ obj_files' = Append(obj_files, obj)
                /\ IF force
                   THEN /\ compile_tasks' = Append(compile_tasks, task)
                        /\ idx' = idx + 1
                        /\ UNCHANGED <<pc, exitCode, outcome>>
                   ELSE IF data.kind # "dict"
                   THEN \* self.data.get: AttributeError
                        /\ Die(1, "AttributeError")
                        /\ UNCHANGED <<compile_tasks, idx>>
                   ELSE /\ compile_tasks' =
                              IF needs_rebuild(data, obj, source_hash)
                              THEN Append(compile_tasks, task)
                              ELSE compile_tasks
                        /\ idx' = idx + 1
                        /\ UNCHANGED <<pc, exitCode, outcome>>
    /\ UNCHANGED <<force, data, max_workers, fut, processed, errors,
                   linkCalls, saves, loaded, fileAtStart, run>>
    /\ UNCHANGED diskVars
    /\ UNCHANGED histVars
    /\ UNCHANGED hvars
    /\ UNCHANGED pvars
    /\ UNCHANGED schedVars

RECURSIVE RecordAll(_, _, _)
\* update_entry for every task of a list
RecordAll(d, tasks, now) ==
    IF tasks = <<>> THEN d
    ELSE RecordAll(update_entry(d, Head(tasks).obj, Head(tasks).hsh, now),
                   Tail(tasks), now)

\* Dispatch that records the cache entry of every task when it submits it
Dispatch_EagerRecord(jobs) ==
    /\ pc = "classify"
    /\ idx = NumUnits + 1
    /\ compile_tasks # <<>>
    /\ jobs = jobsArg
    /\ max_workers' = PoolSize(jobs)
    /\ fut' = [t \in 1..Len(compile_tasks) |-> "queued"]
    /\ pc' = "compile"
    /\ data' = RecordAll(data, compile_tasks, run)
    /\ UNCHANGED <<force, idx, obj_files, compile_tasks, processed,
                   errors, linkCalls, saves, exitCode, outcome, loaded,
                   fileAtStart, run>>
    /\ UNCHANGED diskVars
    /\ UNCHANGED histVars
    /\ UNCHANGED hvars
    /\ UNCHANGED pvars
    /\ started' = {}
    /\ jobsArg' = <<PoolSize(jobs)>>

\* "if compile_tasks:" and the executor.submit calls of
\* _run_parallel_compilers
Dispatch(jobs) ==
    /\ pc = "classify"
    /\ idx = NumUnits + 1
    /\ compile_tasks # <<>>
    /\ jobs = jobsArg
    /\ max_workers' = PoolSize(jobs)
    /\ fut' = [t \in 1..Len(compile_tasks) |-> "queued"]
    /\ pc' = "compile"
    /\ UNCHANGED <<force, data, idx, obj_files, compile_tasks, processed,
                   errors, linkCalls, saves, exitCode, outcome, loaded,
                   fileAtStart, run>>
    /\ UNCHANGED diskVars
    /\ UNCHANGED histVars
    /\ UNCHANGED hvars
    /\ UNCHANGED pvars
    /\ started' = {}
    /\ jobsArg' = <<PoolSize(jobs)>>

\* "else: Nothing to compile"
NothingToCompile ==
    /\ pc = "classify"
    /\ idx = NumUnits + 1
    /\ compile_tasks = <<>>
    /\ pc' = "link"
    /\ UNCHANGED <<force, data, idx, obj_files, compile_tasks, max_workers,
                   fut, processed, errors, linkCalls, saves, exitCode,
                   outcome, loaded, fileAtStart, run>>
    /\ UNCHANGED diskVars
    /\ UNCHANGED histVars
    /\ UNCHANGED hvars
    /\ UNCHANGED pvars
    /\ UNCHANGED schedVars

Tasks == DOMAIN fut
Finished(t) == fut[t] \in {"ok", "fail", "crash"}
Running == {t \in Tasks : fut[t] = "running"}

\* the pool hands a queued work item to a free worker process
StartJob(t) ==
    /\ pc \in {"compile", "unwind"}
    /\ fut[t] = "queued"
    /\ Cardinality(Running) < max_workers
    /\ fut' = [fut EXCEPT ![t] = "running"]
    /\ UNCHANGED <<pc, force, data, idx, obj_files, compile_tasks,
                   max_workers, processed, errors, linkCalls, saves,
                   exitCode, outcome, loaded, fileAtStart, run>>
    /\ UNCHANGED diskVars
    /\ UNCHANGED histVars
    /\ UNCHANGED hvars
    /\ UNCHANGED pvars
    /\ started' = started \cup {t}
    /\ UNCHANGED jobsArg

\* compiler_daemon returns: clang++ exited 0 and wrote the object file
\* (r = "ok"), exited non-zero (r = "fail"), or compiler_daemon raised
\* (r = "crash": the future carries the exception)
FinishJob(t, r) ==
    /\ pc \in {"compile", "unwind"}
    /\ fut[t] = "running"
    /\ fut' = [fut EXCEPT ![t] = r]
    /\ objFiles' = IF r = "ok"
                   THEN [objFiles EXCEPT ![compile_tasks[t].obj] =
                                             compile_tasks[t].hsh]
                   ELSE objFiles
    /\ UNCHANGED <<pc, force, data, idx, obj_files, compile_tasks,
                   max_workers, processed, errors, linkCalls, saves,
                   exitCode, outcome, loaded, fileAtStart, run>>
    /\ UNCHANGED <<srcFiles, cacheFile>>
    /\ UNCHANGED histVars
    /\ UNCHANGED hvars
    /\ UNCHANGED pvars
    /\ UNCHANGED schedVars

\* a worker process dies: the pool is broken, every future that has no
\* result yet gets BrokenProcessPool
WorkerKilled ==
    /\ pc \in {"compile", "unwind"}
    /\ Running # {}
    /\ fut' = [t \in Tasks |-> IF Finished(t) THEN fut[t] ELSE "crash"]
    /\ UNCHANGED <<pc, force, data, idx, obj_files, compile_tasks,
                   max_workers, processed, errors, linkCalls, saves,
                   exitCode, outcome, loaded, fileAtStart, run>>
    /\ UNCHANGED diskVars
    /\ UNCHANGED histVars
    /\ UNCHANGED hvars
    /\ UNCHANGED pvars
    /\ UNCHANGED schedVars

\* ProcessCompletion that also writes the cache file at each compile success
ProcessCompletion_Commit(t) ==
    /\ pc = "compile"
    /\ Finished(t)
    /\ \A k \in 1..Len(processed) : processed[k] # t
    /\ processed' = Append(processed, t)
    /\ IF fut[t] \in {"crash", "fail"}
       THEN /\ errors' = TRUE
            /\ UNCHANGED <<data, pc, exitCode, outcome, cacheFile>>
       ELSE IF data.kind # "dict"
       THEN /\ pc' = "unwind"
            /\ UNCHANGED <<data, errors, exitCode, outcome, cacheFile>>
       ELSE /\ data' = update_entry(data, compile_tasks[t].obj,
                                    compile_tasks[t].hsh, run)
            /\ cacheFile' = Dump(data')
            /\ UNCHANGED <<errors, pc, exitCode, outcome>>
    /\ UNCHANGED <<force, idx, obj_files, compile_tasks, max_workers, fut,
                   linkCalls, saves, loaded, fileAtStart, run>>
    /\ UNCHANGED <<srcFiles, objFiles>>
    /\ UNCHANGED histVars
    /\ UNCHANGED hvars
    /\ UNCHANGED pvars
    /\ UNCHANGED schedVars

\* ProcessCompletion that exits at the first failed job (fail-fast)
ProcessCompletion_FailFast(t) ==
    /\ pc = "compile"
    /\ Finished(t)
    /\ \A k \in 1..Len(processed) : processed[k] # t
    /\ processed' = Append(processed, t)
    /\ IF fut[t] \in {"crash", "fail"}
       THEN /\ errors' = TRUE
            /\ Die(1, "compile_errors")
            /\ UNCHANGED data
       ELSE IF data.kind # "dict"
       THEN /\ pc' = "unwind"
            /\ UNCHANGED <<data, errors, exitCode, outcome>>
       ELSE /\ data' = update_entry(data, compile_tasks[t].obj,
                                    compile_tasks[t].hsh, run)
            /\ UNCHANGED <<errors, pc, exitCode, outcome>>
    /\ UNCHANGED <<force, idx, obj_files, compile_tasks, max_workers, fut,
                   linkCalls, saves, loaded, fileAtStart, run>>
    /\ UNCHANGED diskVars
    /\ UNCHANGED histVars
    /\ UNCHANGED hvars
    /\ UNCHANGED pvars
    /\ UNCHANGED schedVars

\* one iteration of "for future in as_completed(future_map)"
ProcessCompletion(t) ==
    /\ pc = "compile"
    /\ Finished(t)
    /\ \A k \in 1..Len(processed) : processed[k] # t
    /\ processed' = Append(processed, t)
    /\ IF fut[t] \in {"crash", "fail"}
       THEN /\ errors' = TRUE
            /\ UNCHANGED <<data, pc, exitCode, outcome>>
       ELSE IF data.kind # "dict"
       THEN \* self.data[str(obj_path)] = ...: TypeError; leaving the
            \* "with" block waits for the jobs still outstanding
            /\ pc' = "unwind"
            /\ UNCHANGED <<data, errors, exitCode, outcome>>
       ELSE /\ data' = update_entry(data, compile_tasks[t].obj,
                                    compile_tasks[t].hsh, run)
            /\ UNCHANGED <<errors, pc, exitCode, outcome>>
    /\ UNCHANGED <<force, idx, obj_files, compile_tasks, max_workers, fut,
                   linkCalls, saves, loaded, fileAtStart, run>>
    /\ UNCHANGED diskVars
    /\ UNCHANGED histVars
    /\ UNCHANGED hvars
    /\ UNCHANGED pvars
    /\ UNCHANGED schedVars

\* the exception of ProcessCompletion leaves the pool's "with" block and
\* reaches the top level
Unwound ==
    /\ pc = "unwind"
    /\ \A t \in Tasks : Finished(t)
    /\ Die(1, "TypeError")
    /\ UNCHANGED <<force, data, idx, obj_files, compile_tasks, max_workers,
                   fut, processed, errors, linkCalls, saves, loaded,
                   fileAtStart, run>>
    /\ UNCHANGED diskVars
    /\ UNCHANGED histVars
    /\ UNCHANGED hvars
    /\ UNCHANGED pvars
    /\ UNCHANGED schedVars

\* AfterCompile without the "if errors" gate: always on to _link
AfterCompile_NoGate ==
    /\ pc = "compile"
    /\ Len(processed) = Len(compile_tasks)
    /\ pc' = "link"
    /\ UNCHANGED <<exitCode, outcome>>
    /\ UNCHANGED <<force, data, idx, obj_files, compile_tasks, max_workers,
                   fut, processed, errors, linkCalls, saves, loaded,
                   fileAtStart, run>>
    /\ UNCHANGED diskVars
    /\ UNCHANGED histVars
    /\ UNCHANGED hvars
    /\ UNCHANGED pvars
    /\ UNCHANGED schedVars

\* as_completed is exhausted: "if errors: sys.exit(1)", else on to _link
AfterCompile ==
    /\ pc = "compile"
    /\ Len(processed) = Len(compile_tasks)
    /\ IF errors
       THEN Die(1, "compile_errors")
       ELSE /\ pc' = "link"
            /\ UNCHANGED <<exitCode, outcome>>
    /\ UNCHANGED <<force, data, idx, obj_files, compile_tasks, max_workers,
                   fut, processed, errors, linkCalls, saves, loaded,
                   fileAtStart, run>>
    /\ UNCHANGED diskVars
    /\ UNCHANGED histVars
    /\ UNCHANGED hvars
    /\ UNCHANGED pvars
    /\ UNCHANGED schedVars

\* Link that hands the linker only the objects compiled in this build
Link_CompiledOnly(ok) ==
    /\ pc = "link"
    /\ IF obj_files = <<>>
       THEN /\ pc' = "save"
            /\ UNCHANGED <<linkCalls, exitCode, outcome>>
       ELSE /\ linkCalls' = Append(linkCalls,
                                    [objs |-> [k \in 1..Len(compile_tasks) |->
                                                  compile_tasks[k].obj],
                                     returncode |-> IF ok THEN 0 ELSE 1])
            /\ IF ok
               THEN /\ pc' = "save"
                    /\ UNCHANGED <<exitCode, outcome>>
               ELSE Die(1, "link_failed")
    /\ UNCHANGED <<force, data, idx, obj_files, compile_tasks, max_workers,
                   fut, processed, errors, saves, loaded, fileAtStart, run>>
    /\ UNCHANGED diskVars
    /\ UNCHANGED histVars
    /\ UNCHANGED hvars
    /\ UNCHANGED pvars
    /\ UNCHANGED schedVars

\* Link that writes the cache before exiting on a linker failure
Link_SaveOnFail(ok) ==
    /\ pc = "link"
    /\ IF obj_files = <<>>
       THEN /\ pc' = "save"
            /\ UNCHANGED <<linkCalls, exitCode, outcome, cacheFile, saves>>
       ELSE /\ linkCalls' = Append(linkCalls,
                                    [objs |-> obj_files,
                                     returncode |-> IF ok THEN 0 ELSE 1])
            /\ IF ok
               THEN /\ pc' = "save"
                    /\ UNCHANGED <<exitCode, outcome, cacheFile, saves>>
               ELSE /\ cacheFile' = Dump(data)
                    /\ saves' = saves + 1
                    /\ Die(1, "link_failed")
    /\ UNCHANGED <<force, data, idx, obj_files, compile_tasks, max_workers,
                   fut, processed, errors, loaded, fileAtStart, run>>
    /\ UNCHANGED <<srcFiles, objFiles>>
    /\ UNCHANGED histVars
    /\ UNCHANGED hvars
    /\ UNCHANGED pvars
    /\ UNCHANGED schedVars

\* ForgeBuilder._link; ok is whether the linker exits 0
Link(ok) ==
    /\ pc = "link"
    /\ IF obj_files = <<>>
       THEN /\ pc' = "save"
            /\ UNCHANGED <<linkCalls, exitCode, outcome>>
       ELSE /\ linkCalls' = Append(linkCalls,
                                    [objs |-> obj_files,
                                     returncode |-> IF ok THEN 0 ELSE 1])
            /\ IF ok
               THEN /\ pc' = "save"
                    /\ UNCHANGED <<exitCode, outcome>>
               ELSE Die(1, "link_failed")
    /\ UNCHANGED <<force, data, idx, obj_files, compile_tasks, max_workers,
                   fut, processed, errors, saves, loaded, fileAtStart, run>>
    /\ UNCHANGED diskVars
    /\ UNCHANGED histVars
    /\ UNCHANGED hvars
    /\ UNCHANGED pvars
    /\ UNCHANGED schedVars

\* Save that writes the map as it was loaded instead of self.data
Save_Loaded(r) ==
    /\ pc = "save"
    /\ IF r = "ok"
       THEN /\ cacheFile' = Dump(loaded)
            /\ saves' = saves + 1
            /\ Die(0, "success")
       ELSE IF r = "write"
       THEN /\ cacheFile' = GarbageFile
            /\ saves' = saves + 1
            /\ Die(1, "OSError")
       ELSE /\ Die(1, "OSError")
            /\ UNCHANGED <<cacheFile, saves>>
    /\ UNCHANGED <<force, data, idx, obj_files, compile_tasks, max_workers,
                   fut, processed, errors, linkCalls, loaded, fileAtStart,
                   run>>
    /\ UNCHANGED <<srcFiles, objFiles>>
    /\ UNCHANGED histVars
    /\ UNCHANGED hvars
    /\ UNCHANGED pvars
    /\ UNCHANGED schedVars

\* self.cache.save() and the end of build(); r = "ok": the file is written;
\* r = "open": open(..., "w") raises OSError; r = "write": json.dump raises
\* OSError after the file was truncated
Save(r) ==
    /\ pc = "save"
    /\ IF r = "ok"
       THEN /\ cacheFile' = Dump(data)
            /\ saves' = saves + 1
            /\ Die(0, "success")
       ELSE IF r = "write"
       THEN /\ cacheFile' = GarbageFile
            /\ saves' = saves + 1
            /\ Die(1, "OSError")
       ELSE /\ Die(1, "OSError")
            /\ UNCHANGED <<cacheFile, saves>>
    /\ UNCHANGED <<force, data, idx, obj_files, compile_tasks, max_workers,
                   fut, processed, errors, linkCalls, loaded, fileAtStart,
                   run>>
    /\ UNCHANGED <<srcFiles, objFiles>>
    /\ UNCHANGED histVars
    /\ UNCHANGED hvars
    /\ UNCHANGED pvars
    /\ UNCHANGED schedVars

\* the process is gone; the shell has its exit status
Exit ==
    /\ pc = "done"
    /\ prev' = [outcome |-> outcome, force |-> force,
                dispatched |-> {compile_tasks[t].unit : t \in Tasks}]
    /\ prevSrc' = srcFiles
    /\ touched' = FALSE
    /\ pc' = "idle"
    /\ force' = FALSE
    /\ data' = EmptyDict
    /\ idx' = 0
    /\ obj_files' = <<>>
    /\ compile_tasks' = <<>>
    /\ max_workers' = 0
    /\ fut' = <<>>
    /\ processed' = <<>>
    /\ errors' = FALSE
    /\ linkCalls' = <<>>
    /\ saves' = 0
    /\ exitCode' = -1
    /\ outcome' = "none"
    /\ loaded' = EmptyDict
    /\ fileAtStart' = MissingFile
    /\ UNCHANGED run
    /\ UNCHANGED diskVars
    /\ UNCHANGED hvars
    /\ UNCHANGED pvars
    /\ started' = {}
    /\ jobsArg' = <<>>

(* -------------------------------------------------------- specifications *)
HashIdle ==
    /\ hIn1 = [path |-> <<>>, contents |-> <<>>, base |-> <<>>,
               profile |-> <<>>, inc |-> <<>>]
    /\ hIn2 = hIn1
    /\ hOut1 = <<>>
    /\ hOut2 = <<>>
    /\ hpc = "unused"

\* SpecPaths is not running
PathsIdle ==
    /\ pSources = <<>>
    /\ pIdx = 0
    /\ pObjFiles = <<>>
    /\ pTasks = <<>>

Init == BuildInit /\ HashIdle /\ PathsIdle

Next ==
    \/ \E u \in Units, c \in Contents \cup {Missing} : EditSource(u, c)
    \/ \E f \in {MissingFile, GarbageFile, NonObjectFile} : TamperCache(f)
    \/ Clean
    \/ \E f \in BOOLEAN : StartBuild(f)
    \/ Classify
    \/ \E jobs \in JobsArgs : Dispatch(jobs)
    \/ NothingToCompile
    \/ \E t \in Tasks : StartJob(t)
    \/ \E t \in Tasks, r \in {"ok", "fail", "crash"} : FinishJob(t, r)
    \/ WorkerKilled
    \/ \E t \in Tasks : ProcessCompletion(t)
    \/ Unwound
    \/ AfterCompile
    \/ \E ok \in BOOLEAN : Link(ok)
    \/ \E r \in {"ok", "open", "write"} : Save(r)
    \/ Exit

Spec == Init /\ [][Next]_vars

\* a project whose first build (of the fresh checkout, at time 0) succeeded:
\* every object file compiled from the present sources, every entry saved
BuiltInit ==
    /\ srcFiles = [u \in Units |-> <<49>>]
    /\ objFiles = [k \in ObjKeys |->
                     Fingerprint(CHOOSE u \in Units : ObjKey(u) = k)]
    /\ cacheFile = Dump([kind |-> "dict",
                         map |-> [k \in ObjKeys |->
                                    [hash |-> objFiles[k], timestamp |-> 0]]])
    /\ run = 0
    /\ ProcIdle
    /\ prev = [outcome |-> "success", force |-> FALSE, dispatched |-> Units]
    /\ prevSrc = srcFiles
    /\ touched = FALSE

InitBuilt == BuiltInit /\ HashIdle /\ PathsIdle
SpecBuilt == InitBuilt /\ [][Next]_vars

InitHash == HashInit /\ BuildInit /\ PathsIdle
NextHash == HashBoth /\ UNCHANGED bvars /\ UNCHANGED pvars
SpecHash == InitHash /\ [][NextHash]_vars

InitPaths == PathsInit /\ BuildInit /\ HashIdle
NextPaths ==
    \E stale \in BOOLEAN :
        DeriveObject(stale) /\ UNCHANGED bvars /\ UNCHANGED hvars
SpecPaths == InitPaths /\ [][NextPaths]_vars


(* ---------------------------------------------------------------- claims *)
TaskUnits == {compile_tasks[k].unit : k \in 1..Len(compile_tasks)}
DispatchedUnits == {compile_tasks[t].unit : t \in Tasks}
ProcessedTasks == {processed[k] : k \in 1..Len(processed)}
ClassifiedAll == idx = NumUnits + 1
LinkSucceeded == Len(linkCalls) = 1 /\ linkCalls[1].returncode = 0

\* C1: the linker is invoked only when every dispatched job returned exit
\* code 0; a build in which a job failed or crashed ends with a non-zero
\* exit status and without any linker invocation.
C1_LinkOnlyAfterCleanCompile ==
    /\ linkCalls # <<>> =>
          /\ Tasks = 1..Len(compile_tasks)
          /\ \A t \in Tasks : fut[t] = "ok"
    /\ (pc = "done" /\ \E t \in Tasks : fut[t] \in {"fail", "crash"}) =>
          /\ exitCode # 0
          /\ linkCalls = <<>>

\* a build exiting after one job failed and its sibling compiled
C1_Witness ==
    /\ pc = "done"
    /\ outcome = "compile_errors"
    /\ \E a, b \in Tasks : fut[a] = "fail" /\ fut[b] = "ok"
    /\ linkCalls = <<>>

\* C2: within one build the cache file is written at most once and only
\* after the link step succeeded or was skipped; when the build exits on a
\* missing source, a compile failure, a worker crash or a link failure the
\* file is as it was when the build started.
C2_CacheWrittenOnceAfterLink ==
    pc # "idle" =>
       /\ saves <= 1
       /\ (saves # 0 \/ cacheFile # fileAtStart) =>
             /\ pc = "done"
             /\ saves = 1
             /\ obj_files # <<>> => LinkSucceeded
       /\ (pc = "done" /\ outcome \in {"missing_source", "compile_errors",
                                        "link_failed"}) =>
             /\ saves = 0
             /\ cacheFile = fileAtStart

\* a build whose link failed after entries were updated in memory
C2_Witness ==
    /\ pc = "done"
    /\ outcome = "link_failed"
    /\ data # loaded
    /\ cacheFile = fileAtStart

C4_SuccessRecordedDespiteSiblingFailure ==
    pc = "done" =>
       \A a, b \in Tasks :
          (fut[a] = "fail" /\ fut[b] = "ok") =>
             /\ data.kind = "dict"
             /\ get_entry(data, compile_tasks[b].obj).hash =
                   Fingerprint(compile_tasks[b].unit)
             /\ get_entry(data, compile_tasks[b].obj).timestamp = run
             /\ data.map[compile_tasks[a].obj] =
                   loaded.map[compile_tasks[a].obj]
             /\ exitCode # 0
             /\ linkCalls = <<>>

\* C5: a build (not force-build) that directly follows a successful build
\* dispatches a job for exactly the units whose source bytes differ from
\* those of the previous build, and leaves the cache entries of the other
\* units as they were, in memory and in the file it writes.
C5_IncrementalRebuild ==
    (/\ prev.outcome = "success"
     /\ ~touched
     /\ pc # "idle"
     /\ ~force
     /\ ClassifiedAll) =>
       LET changed == {u \in Units : srcFiles[u] # prevSrc[u]}
       IN  /\ TaskUnits = changed
           /\ pc # "classify" => DispatchedUnits = changed
           /\ \A u \in Units \ changed :
                 /\ data.map[ObjKey(u)] = loaded.map[ObjKey(u)]
                 /\ (pc = "done" /\ outcome = "success") =>
                       cacheFile.map[ObjKey(u)] = fileAtStart.map[ObjKey(u)]

\* after a successful build only a.cpp was edited: one job, for a.cpp
C5_Witness ==
    /\ prev.outcome = "success"
    /\ ~touched
    /\ ~force
    /\ pc = "compile"
    /\ srcFiles[1] # prevSrc[1]
    /\ srcFiles[2] = prevSrc[2]
    /\ Len(compile_tasks) = 1
    /\ compile_tasks[1].unit = 1
    /\ Tasks = {1}

\* the original statement of C6: after a build whose compiles all succeeded
\* and whose link failed, the next build of the unchanged sources dispatches
\* no compile job.
C6_Original ==
    (/\ prev.outcome = "link_failed"
     /\ ~touched
     /\ srcFiles = prevSrc
     /\ pc # "idle"
     /\ ~force
     /\ ClassifiedAll) =>
       compile_tasks = <<>>

\* C6 (amended): after a build (not force-build) whose compiles all
\* succeeded and whose link failed, the next build of the unchanged sources
\* dispatches a job for exactly the units the failed build compiled: the
\* failed build did not write the cache file, so its compile results are not
\* reused.
C6_RecompiledAfterLinkFailure ==
    (/\ prev.outcome = "link_failed"
     /\ ~prev.force
     /\ ~touched
     /\ srcFiles = prevSrc
     /\ pc # "idle"
     /\ ~force
     /\ ClassifiedAll) =>
       /\ TaskUnits = prev.dispatched
       /\ pc # "classify" => DispatchedUnits = prev.dispatched

\* both units were compiled by the build whose link failed and are
\* dispatched again
C6_Witness ==
    /\ prev.outcome = "link_failed"
    /\ ~prev.force
    /\ prev.dispatched = Units
    /\ ~touched
    /\ srcFiles = prevSrc
    /\ ~force
    /\ pc = "compile"
    /\ DispatchedUnits = Units

\* C7: two input tuples of hash_source that differ in a component have
\* different fingerprints, equal tuples have equal fingerprints.
C7_FingerprintSensitive ==
    hpc = "hashed" =>
       /\ hIn1 # hIn2 => hOut1 # hOut2
       /\ hIn1 = hIn2 => hOut1 = hOut2

\* C8: force-build makes a compile task of every unit it classifies and
\* dispatches a job for every unit of the source list, whatever the cache
\* holds.
C8_ForceDispatchesAll ==
    (pc # "idle" /\ force) =>
       /\ TaskUnits = {u \in Units : u < idx}
       /\ Len(compile_tasks) = idx - 1
       /\ (pc \notin {"classify", "done"} \/
           (pc = "done" /\ outcome # "missing_source")) =>
             /\ DispatchedUnits = Units
             /\ Len(compile_tasks) = NumUnits

\* a force-build has dispatched a job for both units although the loaded
\* cache holds the current fingerprint of each
C8_Witness ==
    /\ force
    /\ pc = "compile"
    /\ loaded.kind = "dict"
    /\ \A u \in Units : ~needs_rebuild(loaded, ObjKey(u), Fingerprint(u))
    /\ DispatchedUnits = Units

\* C9: when a build ends successfully the cache file holds, for every unit
\* of the source list, an entry under the unit's object path whose
\* fingerprint is the unit's current fingerprint.
C9_PersistedAfterSuccess ==
    (pc = "done" /\ outcome = "success") =>
       /\ cacheFile.kind = "dict"
       /\ \A u \in Units :
             /\ cacheFile.map[ObjKey(u)] # NoEntry
             /\ cacheFile.map[ObjKey(u)].hash = Fingerprint(u)

\* a successful build that started without a cache file and compiled both
\* units
C9_Witness ==
    /\ pc = "done"
    /\ outcome = "success"
    /\ fileAtStart = MissingFile
    /\ Len(compile_tasks) = 2
    /\ Cardinality({k \in ObjKeys : cacheFile.map[k] # NoEntry}) = 2

\* C10: a build that finds the cache file missing, unparsable or otherwise
\* corrupt loads an empty cache, does not end in an exception on the cache,
\* and classifies every unit stale.
C10_LoadFailSoft ==
    (pc # "idle" /\ fileAtStart.kind # "dict") =>
       /\ loaded = EmptyDict
       /\ outcome \notin {"AttributeError", "TypeError"}
       /\ ClassifiedAll => TaskUnits = Units

\* C11: a failure of the cache write at the end of a build whose compiles
\* and link succeeded is not fatal: the build still exits with status 0.
C11_SaveFailureNonFatal ==
    (pc = "done" /\ outcome = "OSError") =>
       /\ LinkSucceeded
       /\ exitCode = 0

\* C12: when a build ends in which the future of a job raised (a worker
\* crash), the build has failed without linking, the crashed unit's cache
\* entry is as loaded, and every dispatched job was run by a worker; a
\* sibling that returned exit code 0 was processed and has its entry updated.
C12_CrashIsolated ==
    (pc = "done" /\ \E t \in Tasks : fut[t] = "crash") =>
       /\ exitCode # 0
       /\ linkCalls = <<>>
       /\ \A t \in Tasks :
             /\ t \in started
             /\ fut[t] = "crash" =>
                   data.map[compile_tasks[t].obj] =
                      loaded.map[compile_tasks[t].obj]
             /\ fut[t] = "ok" =>
                   /\ t \in ProcessedTasks
                   /\ data.kind = "dict"
                   /\ get_entry(data, compile_tasks[t].obj) =
                         [hash |-> compile_tasks[t].hsh, timestamp |-> run]

\* C13: a build that finds a source file of the list missing exits with a
\* non-zero status without having dispatched a job or invoked the linker,
\* and with every cache entry, in memory and in the file, as it was loaded,
\* wherever the missing file stands in the list.
C13_MissingSourceAborts ==
    (pc # "idle" /\ \E u \in Units : srcFiles[u] = Missing) =>
       /\ pc \in {"classify", "done"}
       /\ \A u \in Units : srcFiles[u] = Missing => idx <= u
       /\ Tasks = {}
       /\ started = {}
       /\ linkCalls = <<>>
       /\ data = loaded
       /\ saves = 0
       /\ cacheFile = fileAtStart
       /\ pc = "done" => exitCode # 0

\* the second source is missing: the build has exited with the first,
\* stale, unit never dispatched
C13_Witness ==
    /\ pc = "done"
    /\ outcome = "missing_source"
    /\ exitCode = 1
    /\ srcFiles[1] # Missing
    /\ srcFiles[2] = Missing
    /\ Len(compile_tasks) = 1
    /\ Tasks = {}

\* C14: a build exits with status 0 exactly when no source file is missing,
\* every dispatched job returned exit code 0 and the link succeeded (or was
\* skipped for want of objects), and with a non-zero status otherwise.
C14_ExitCodeIffFullSuccess ==
    pc = "done" =>
       (exitCode = 0 <=>
          /\ \A u \in Units : srcFiles[u] # Missing
          /\ \A t \in Tasks : fut[t] = "ok"
          /\ \/ LinkSucceeded
             \/ pc = "done" /\ obj_files = <<>> /\ ClassifiedAll)

\* C15: a build invokes the linker at most once, and then with the object
\* path of every unit of the source list in source-list order, whether the
\* unit was compiled in this build or found fresh; a unit found fresh gets
\* no job.
C15_LinkAllObjectsInOrder ==
    /\ Len(linkCalls) <= 1
    /\ linkCalls # <<>> =>
          /\ Len(linkCalls[1].objs) = NumUnits
          /\ \A u \in Units : linkCalls[1].objs[u] = ObjKey(u)
    /\ (pc # "idle" /\ ~force /\ loaded.kind = "dict") =>
          \A u \in Units :
             (u < idx /\ ~needs_rebuild(loaded, ObjKey(u), Fingerprint(u))) =>
                /\ u \notin TaskUnits
                /\ u \notin DispatchedUnits

\* the linker has run on both objects after a build that compiled a.cpp and
\* found b.cpp fresh
C15_Witness ==
    /\ pc = "save"
    /\ Len(linkCalls) = 1
    /\ linkCalls[1].objs = <<ObjKey(1), ObjKey(2)>>
    /\ DispatchedUnits = {1}
    /\ ~needs_rebuild(loaded, ObjKey(2), Fingerprint(2))

\* C16: during a build a cache entry differs from the entry that was loaded
\* only if a job for that same object path returned exit code 0 and was
\* processed; the entries of units whose job failed or crashed and of units
\* found fresh keep the loaded fingerprint and timestamp, in memory and in
\* the file a successful build writes.
C16_EntryChangedOnlyBySuccess ==
    pc # "idle" =>
       /\ data.kind = loaded.kind
       /\ \A u \in Units :
             LET k == ObjKey(u)
                 compiled == \E t \in ProcessedTasks :
                                /\ compile_tasks[t].unit = u
                                /\ compile_tasks[t].obj = k
                                /\ fut[t] = "ok"
             IN  /\ data.map[k] # loaded.map[k] => compiled
                 /\ (pc = "done" /\ outcome = "success" /\
                     cacheFile.map[k] # loaded.map[k]) => compiled

\* a force-build over an existing cache: a.cpp failed and keeps its loaded
\* entry, b.cpp compiled and has a new one
C16_Witness ==
    /\ pc = "done"
    /\ \E a, b \in Tasks :
          /\ fut[a] = "fail"
          /\ loaded.map[compile_tasks[a].obj] # NoEntry
          /\ data.map[compile_tasks[a].obj] = loaded.map[compile_tasks[a].obj]
          /\ fut[b] = "ok"
          /\ loaded.map[compile_tasks[b].obj] # NoEntry
          /\ data.map[compile_tasks[b].obj] # loaded.map[compile_tasks[b].obj]

\* C17: within a build each step of the classification loop reads the cache
\* as it was loaded, takes the units one by one in list order and happens
\* before any job exists; once jobs exist no unit is classified again; and
\* the in-memory cache changes only by the update for a job that has
\* finished with exit code 0, after classification is through.
C17_ClassifyBeforeUpdate ==
    [][/\ (pc = "classify" /\ idx' # idx) =>
             /\ idx' = idx + 1
             /\ obj_files' = Append(obj_files, ObjKey(idx))
             /\ data = loaded
             /\ Tasks = {}
       /\ (Tasks # {} /\ pc' # "idle") => idx' = idx
       /\ (pc # "idle" /\ pc' # "idle" /\ data' # data) =>
             /\ ClassifiedAll
             /\ \E t \in Tasks :
                   /\ fut[t] = "ok"
                   /\ data' = update_entry(data, compile_tasks[t].obj,
                                           compile_tasks[t].hsh, run)
      ]_vars

\* one unit's entry has been updated while the job of its sibling is still
\* running
C17_Witness ==
    /\ pc = "compile"
    /\ ClassifiedAll
    /\ data # loaded
    /\ \E t \in Tasks : fut[t] = "running"
    /\ \E t \in ProcessedTasks : fut[t] = "ok"

\* C18: the number of jobs running at once never exceeds the pool size; the
\* pool is created with the requested --jobs value when that is positive and
\* with the CPU count (at least 1) when it is absent or not positive; and
\* when the scheduler reports, every dispatched job has been run by a worker.
C18_PoolBoundAndAllRun ==
    [][/\ Cardinality(Running) <= max_workers
       /\ (pc = "classify" /\ pc' = "compile") =>
             /\ (jobsArg # <<>> /\ jobsArg[1] > 0) =>
                   max_workers' = jobsArg[1]
             /\ (jobsArg = <<>> \/ jobsArg[1] <= 0) =>
                   /\ max_workers' = CpuCount
                   /\ max_workers' >= 1
       /\ (pc = "compile" /\ pc' \in {"link", "done"}) =>
             Tasks \subseteq started
      ]_vars

\* the loop over the source list has ended
C19_LoopDone == pIdx = Len(pSources) /\ pSources # <<>>
\* the file name up to its last dot; the whole name when it has no dot or
\* its only candidate dot is the first or the last character
C19_Stem(name) ==
    LET cut == {k \in 2..(Len(name) - 1) :
                  /\ name[k] = 46
                  /\ \A j \in (k + 1)..Len(name) : name[j] # 46}
    IN  IF cut = {} \/ name[Len(name)] = 46 THEN name
        ELSE SubSeq(name, 1, (CHOOSE k \in cut : TRUE) - 1)
C19_StemsDistinct ==
    \A i, j \in 1..Len(pSources) :
        i # j => C19_Stem(pSources[i][Len(pSources[i])])
                    # C19_Stem(pSources[j][Len(pSources[j])])
C19_ObjectsDistinct ==
    /\ \A i, j \in 1..Len(pTasks) : i # j => pTasks[i].obj # pTasks[j].obj
    /\ \A i, j \in 1..Len(pObjFiles) : i # j => pObjFiles[i] # pObjFiles[j]

\* C19 as stated: for any source list of pairwise distinct source paths, the
\* compile jobs dispatched in one build write to pairwise distinct object
\* paths (their cache keys).
C19_Original ==
    C19_LoopDone =>
        \A i, j \in 1..Len(pTasks) : i # j => pTasks[i].obj # pTasks[j].obj

\* C19 amended: for any source list whose file names have pairwise distinct
\* stems, the units of one build have pairwise distinct object paths, and so
\* do the compile jobs dispatched.
C19_DistinctStemsDistinctObjects ==
    (C19_LoopDone /\ C19_StemsDistinct) => C19_ObjectsDistinct
C19_Witness ==
    /\ C19_LoopDone
    /\ C19_StemsDistinct
    /\ Len(pTasks) = 2
    /\ pSources[1][1] # pSources[2][1]

\* C20: over any sequence of source edits, builds, forced builds and cleans
\* with arbitrary compile and link outcomes, whenever a build links a unit
\* that it classified FRESH and did not recompile, the object file at the
\* unit's object path was compiled from inputs whose fingerprint is the
\* unit's present fingerprint.
C20_FreshObjectIsCurrent ==
    (linkCalls # <<>> /\ loaded.kind = "dict") =>
        \A u \in Units \ TaskUnits : objFiles[ObjKey(u)] = Fingerprint(u)

====
